---- MODULE Spec2Model ----
(***************************************************************************)
(* SecureTCPRelay (src/main.go): a TCP relay that gates connections by     *)
(* source IP, sniffs TLS vs plaintext, extracts the SNI or the HTTP Host,  *)
(* applies a wildcard domain policy, dials a backend and relays bytes.     *)
(*                                                                         *)
(* Bytes, host names and domain patterns are sequences of byte values.     *)
(* A plaintext request head is modelled at line granularity: one element   *)
(* of a plaintext stream is one line of the head (request line, header     *)
(* line, blank line) or one body byte; a TLS stream is modelled byte for   *)
(* byte.                                                                   *)
(***************************************************************************)
EXTENDS Integers, Sequences, FiniteSets, TLC

\* ------------------------------------------------------------------ bounds
MaxConns == 2

\* ------------------------------------------------------- sequence helpers
Min(a, b) == IF a < b THEN a ELSE b

\* s[from..to] as Go's s[from-1:to]; empty when the range is empty
Slice(s, from, to) == IF from > to THEN << >> ELSE SubSeq(s, from, to)

Drop(s, n) == Slice(s, n + 1, Len(s))

Take(s, n) == Slice(s, 1, Min(n, Len(s)))

\* big-endian 16-bit value of two bytes (binary.BigEndian.Uint16)
Uint16(hi, lo) == hi * 256 + lo

RECURSIVE Zeros(_)
Zeros(n) == IF n <= 0 THEN << >> ELSE <<0>> \o Zeros(n - 1)

\* ----------------------------------------------------------- byte values
ChStar == 42
ChDot == 46
ChBackslash == 92
ChColon == 58
ChNewline == 10
TLSHandshake == 22

\* --------------------------------------------------- DomainAccessControl
\* strings.Replace(s, old, new, -1) for a one-byte old
RECURSIVE Replace(_, _, _)
Replace(s, old, new) ==
    IF s = << >> THEN << >>
    ELSE (IF Head(s) = old THEN new ELSE <<Head(s)>>) \o Replace(Tail(s), old, new)

\* the regular expression matchDomain builds, without the ^ and $ anchors
RegexNoEscape(pattern) == Replace(pattern, ChStar, <<ChDot, ChStar>>)

RegexOf(pattern) ==
    Replace(Replace(pattern, ChDot, <<ChBackslash, ChDot>>), ChStar, <<ChDot, ChStar>>)

\* one regexp atom at re[i]: an escaped byte, the any-byte dot, or a literal
AtomWidth(re, i) == IF re[i] = ChBackslash /\ i < Len(re) THEN 2 ELSE 1

AtomMatches(re, i, ch) ==
    IF re[i] = ChBackslash /\ i < Len(re) THEN ch = re[i + 1]
    ELSE IF re[i] = ChDot THEN ch # ChNewline
    ELSE ch = re[i]

\* regexp.MatchString("^" + re + "$", h) for the atoms RegexOf produces:
\* re[i..] matches exactly h[j..]
RECURSIVE ReMatch(_, _, _, _)
ReMatch(re, i, h, j) ==
    IF i > Len(re) THEN j > Len(h)
    ELSE LET w == AtomWidth(re, i)
             starred == i + w <= Len(re) /\ re[i + w] = ChStar
         IN  IF starred
             THEN \/ ReMatch(re, i + w + 1, h, j)
                  \/ /\ j <= Len(h)
                     /\ AtomMatches(re, i, h[j])
                     /\ ReMatch(re, i, h, j + 1)
             ELSE /\ j <= Len(h)
                  /\ AtomMatches(re, i, h[j])
                  /\ ReMatch(re, i + w, h, j + 1)

matchDomain(host, pattern) == ReMatch(RegexOf(pattern), 1, host, 1)

isAllowedDomainEmptyPass(host, domains) ==
    \/ host = << >>
    \/ Len(domains) = 1 /\ domains[1] = <<ChStar>>
    \/ \E k \in 1..Len(domains) : matchDomain(host, domains[k])

isAllowedDomain(host, domains) ==
    \/ Len(domains) = 1 /\ domains[1] = <<ChStar>>
    \/ \E k \in 1..Len(domains) : matchDomain(host, domains[k])

\* ------------------------------------------------------------ AccessGate
\* An address is a family (4 or 6) and an AddrBits-bit value; a range is a
\* family, a base value and a prefix length (net.IPNet)
AddrBits == 2

RECURSIVE Pow2(_)
Pow2(n) == IF n <= 0 THEN 1 ELSE 2 * Pow2(n - 1)

\* net.IPNet.Contains
Contains(net, ip) ==
    /\ net.fam = ip.fam
    /\ ip.addr \div Pow2(AddrBits - net.len) = net.base \div Pow2(AddrBits - net.len)

\* the allow-list loop of the accept loop
ipAllowedFirstOnly(nets, ip) == Len(nets) >= 1 /\ Contains(nets[1], ip)

ipAllowed(nets, ip) ==
    \E k \in 1..Len(nets) : Contains(nets[k], ip)

\* ------------------------------------------------------ TargetSelector
forwardAddrFirst(kind, dests) == IF Len(dests) > 0 THEN dests[1] ELSE ""

\* forwardAddr as handleConnection picks it; "" when it returns without one
forwardAddrFor(kind, dests) ==
    IF kind = "tls"
    THEN IF Len(dests) >= 2 THEN dests[2]
         ELSE IF Len(dests) = 1 THEN dests[1]
         ELSE ""
    ELSE IF Len(dests) > 0 THEN dests[1] ELSE ""

\* ------------------------------------------------- TLSClientHelloParser
\* a bytes.Reader over d at offset p (p may lie past the end after a Seek)
\* binary.Read of one byte: at end of data nothing is read, the value stays 0
ReadU8(d, p) ==
    IF p < Len(d) THEN [ok |-> TRUE, val |-> d[p + 1], pos |-> p + 1]
    ELSE [ok |-> FALSE, val |-> 0, pos |-> p]

\* binary.Read of two bytes: a lone last byte is consumed and the read fails
ReadU16(d, p) ==
    IF p + 2 <= Len(d) THEN [ok |-> TRUE, val |-> Uint16(d[p + 1], d[p + 2]), pos |-> p + 2]
    ELSE IF p + 1 = Len(d) THEN [ok |-> FALSE, val |-> 0, pos |-> p + 1]
    ELSE [ok |-> FALSE, val |-> 0, pos |-> p]

\* Go's s[lo:hi]: the bytes, or a run-time panic when the bounds lie outside s
GoSlice(s, lo, hi) ==
    IF 0 <= lo /\ lo <= hi /\ hi <= Len(s)
    THEN [panic |-> FALSE, v |-> Slice(s, lo + 1, hi)]
    ELSE [panic |-> TRUE, v |-> << >>]

\* what the walk over the extensions found
NoName == [found |-> FALSE, name |-> << >>, panic |-> FALSE]

Named(sl) == [found |-> ~sl.panic, name |-> sl.v, panic |-> sl.panic]

\* the body of the server_name extension: list length, one entry
\* (name type, name length, name)
ParseSNIUnchecked(list) ==
    IF Len(list) < 2 THEN NoName
    ELSE LET listLen == Uint16(list[1], list[2])
             item == Drop(list, 2)
         IN  IF listLen + 2 > Len(list) \/ listLen = 0 THEN NoName
             ELSE IF Len(item) < 3 \/ item[1] # 0 THEN NoName
             ELSE Named(GoSlice(item, 3, 3 + Uint16(item[2], item[3])))

ParseSNI(list) ==
    IF Len(list) < 2 THEN NoName
    ELSE LET listLen == Uint16(list[1], list[2])
             item == Drop(list, 2)
         IN  IF listLen + 2 > Len(list) \/ listLen = 0 THEN NoName
             ELSE IF Len(item) < 3 \/ item[1] # 0 THEN NoName
             ELSE LET nameLen == Uint16(item[2], item[3])
                  IN  IF nameLen + 3 > Len(item) THEN NoName
                      ELSE Named(GoSlice(item, 3, 3 + nameLen))

\* the walk over the extensions block from offset pos (0-based)
RECURSIVE WalkExtensions(_, _)
WalkExtensions(extData, pos) ==
    IF pos + 4 > Len(extData) THEN NoName
    ELSE LET etype == Uint16(extData[pos + 1], extData[pos + 2])
             el == Uint16(extData[pos + 3], extData[pos + 4])
         IN  IF pos + 4 + el > Len(extData) THEN NoName
             ELSE IF etype = 0
             THEN LET list == GoSlice(extData, pos + 4, pos + 4 + el)
                  IN  IF list.panic THEN [NoName EXCEPT !.panic = TRUE]
                      ELSE ParseSNI(list.v)
             ELSE WalkExtensions(extData, pos + 4 + el)

\* readClientHello's results: hello is "nil" or a record with ServerName;
\* panic when a slice expression was out of range
HelloFail ==
    [hello |-> "nil", ServerName |-> << >>, fullHello |-> << >>, err |-> TRUE, panic |-> FALSE]

\* readClientHello from the handshake type on, for a buf that holds the
\* whole record (and whatever the first read brought after it)
ParseHandshake(buf) ==
    LET d == Drop(buf, 5)
        ht == ReadU8(d, 0)
    IN  IF ~ht.ok \/ ht.val # 1 THEN HelloFail
        ELSE LET sid == ReadU8(d, ht.pos + 3 + 34)
                 cs == ReadU16(d, sid.pos + sid.val)
                 comp == ReadU8(d, cs.pos + cs.val)
                 ext == ReadU16(d, comp.pos + comp.val)
             IN  IF ~ext.ok THEN HelloFail
                 ELSE IF ext.val > 0 /\ ext.pos + ext.val > Len(d) THEN HelloFail
                 ELSE LET extData == Slice(d, ext.pos + 1, ext.pos + ext.val)
                          sni == WalkExtensions(extData, 0)
                      IN  IF sni.panic THEN [HelloFail EXCEPT !.panic = TRUE]
                          ELSE IF sni.found
                          THEN [hello |-> "hello", ServerName |-> sni.name,
                                fullHello |-> buf, err |-> FALSE, panic |-> FALSE]
                          ELSE [hello |-> "hello", ServerName |-> << >>,
                                fullHello |-> buf, err |-> TRUE, panic |-> FALSE]

\* the declared record length of a buffered record header
RecordLen(buf) == Uint16(buf[4], buf[5])

\* ---------------------------------------------------- HTTPHostExtractor
\* lines of a request head: request line, blank line, a header line other
\* than Host, a body byte, a line that is no header; TokHostBase + k is the
\* line "Host: " followed by HostValues[k]
TokRequestLine == 71
TokBlank == 13
TokHeader == 88
TokData == 68
TokGarbage == 33
TokHostBase == 100

HostValues ==
    << <<97, 46, 98>>,                  \* a.b
       <<97, 46, 98, 58, 56, 48>>,      \* a.b:80
       <<120, 46, 121>> >>              \* x.y

IsHostTok(t) == t > TokHostBase /\ t <= TokHostBase + Len(HostValues)

\* the header block from index i: "need" more input, "bad", or "ok" with the
\* first Host value seen (host is carried along; << >> when none)
RECURSIVE ScanHeaders(_, _, _, _)
ScanHeaders(t, i, host, seen) ==
    IF i > Len(t) THEN [st |-> "need", host |-> << >>]
    ELSE IF t[i] = TokBlank THEN [st |-> "ok", host |-> host]
    ELSE IF IsHostTok(t[i])
         THEN ScanHeaders(t, i + 1,
                          IF seen THEN host ELSE HostValues[t[i] - TokHostBase], TRUE)
    ELSE IF t[i] = TokHeader THEN ScanHeaders(t, i + 1, host, seen)
    ELSE [st |-> "bad", host |-> << >>]

\* http.ReadRequest on what the buffered reader holds so far
ReadRequest(t) ==
    IF t = << >> THEN [st |-> "need", host |-> << >>]
    ELSE IF t[1] # TokRequestLine THEN [st |-> "bad", host |-> << >>]
    ELSE ScanHeaders(t, 2, << >>, FALSE)

RECURSIVE Count(_, _)
Count(s, ch) ==
    IF s = << >> THEN 0 ELSE (IF Head(s) = ch THEN 1 ELSE 0) + Count(Tail(s), ch)

RECURSIVE IndexOf(_, _)
IndexOf(s, ch) == IF s = << >> THEN 1 ELSE IF Head(s) = ch THEN 1 ELSE 1 + IndexOf(Tail(s), ch)

\* the host of req.Host without its port: net.SplitHostPort when the value
\* holds a colon, whose failure leaves the empty string
StripPort(h) ==
    IF Count(h, ChColon) = 0 THEN h
    ELSE IF Count(h, ChColon) = 1 THEN Take(h, IndexOf(h, ChColon) - 1)
    ELSE << >>

\* ------------------------------------------------------- bounded inputs
\* a ClientHello record: header, handshake type 1, 3 length bytes, version
\* and random (34 bytes), session id, cipher suites, compression methods,
\* extensions block
U16Bytes(n) == <<n \div 256, n % 256>>

Handshake(htype, sid, cs, comp, exts) ==
    LET rest == <<3, 3>> \o Zeros(32) \o <<Len(sid)>> \o sid \o U16Bytes(Len(cs)) \o cs
                \o <<Len(comp)>> \o comp \o U16Bytes(Len(exts)) \o exts
    IN  <<htype, 0>> \o U16Bytes(Len(rest)) \o rest

Record(body) == <<TLSHandshake, 3, 1>> \o U16Bytes(Len(body)) \o body

SNIExt(name) ==
    <<0, 0>> \o U16Bytes(Len(name) + 5) \o U16Bytes(Len(name) + 3) \o <<0>>
    \o U16Bytes(Len(name)) \o name

GroupsExt == <<0, 10, 0, 2, 0, 29>>

NameAB == <<97, 46, 98>>
NameXY == <<120, 46, 121>>

HelloAB == Record(Handshake(1, <<7>>, <<19, 1>>, <<0>>, GroupsExt \o SNIExt(NameAB)))
HelloXY == Record(Handshake(1, << >>, <<19, 1>>, <<0>>, SNIExt(NameXY)))
HelloNoSNI == Record(Handshake(1, << >>, <<19, 1>>, <<0>>, GroupsExt))
HelloWrongType == Record(Handshake(2, << >>, <<19, 1>>, <<0>>, SNIExt(NameAB)))
HelloZeroLen == <<TLSHandshake, 3, 1, 0, 0>>

\* whole records whose handshake stops inside the cipher suites, and whose
\* extensions block is shorter than its declared length
HelloShortHandshake ==
    Record(Take(Handshake(1, <<7>>, <<19, 1>>, <<0>>, SNIExt(NameAB)), 41))
HelloShortExtensions ==
    Record(Take(Handshake(1, << >>, <<19, 1>>, <<0>>, SNIExt(NameAB)), 50))

\* what a client sends before it closes its write side
ClientStreams ==
    { << >>,
      <<TokRequestLine, TokHostBase + 1, TokBlank, TokData>>,
      <<TokRequestLine, TokHeader, TokHostBase + 2, TokBlank>>,
      <<TokRequestLine, TokHostBase + 3, TokBlank>>,
      <<TokRequestLine, TokHeader, TokBlank, TokData>>,
      <<TokRequestLine, TokHostBase + 1, TokBlank, TokRequestLine, TokHostBase + 3, TokBlank>>,
      <<TokRequestLine, TokGarbage, TokBlank>>,
      <<TokGarbage>>,
      HelloAB \o <<23, 5>>,
      HelloXY,
      HelloNoSNI,
      HelloWrongType,
      HelloZeroLen,
      HelloShortHandshake,
      HelloShortExtensions,
      Take(HelloAB, 20) }

\* the streams of the clients that connect side by side
FewStreams ==
    { <<TokRequestLine, TokBlank, TokData>>,
      <<TLSHandshake, 3, 1, 0, 1>> }

\* what a backend sends before it closes its write side
BackendReplies == { << >>, <<82, 83>> }
FewReplies == { <<82>> }

ClientIPs == { [fam |-> 4, addr |-> 2], [fam |-> 4, addr |-> 1], [fam |-> 6, addr |-> 2] }
FewIPs == { [fam |-> 4, addr |-> 2], [fam |-> 4, addr |-> 1] }

NetsOne == << [fam |-> 4, base |-> 1, len |-> 2] >>
NetsTwo == << [fam |-> 4, base |-> 2, len |-> 1], [fam |-> 6, base |-> 0, len |-> 0] >>

\* the command lines the relay is started with
Configs ==
    { [nets |-> NetsOne, domains |-> << <<ChStar>> >>, dests |-> <<"b0", "b1">>],
      [nets |-> NetsTwo, domains |-> << NameAB >>, dests |-> <<"b0", "b1">>],
      [nets |-> NetsTwo, domains |-> << <<ChStar, ChDot, 98>> >>, dests |-> <<"b0", "b1", "b2">>],
      [nets |-> NetsOne, domains |-> << <<ChStar>>, NameAB >>, dests |-> <<"b0">>] }

FewConfigs ==
    { [nets |-> NetsOne, domains |-> << <<ChStar>> >>, dests |-> <<"b0", "b1">>] }

\* the sizes the first read of a connection may return when avail bytes are
\* in flight
SniffBufSize == 1024

ReadSizes(avail) == 1..Min(avail, SniffBufSize)

\* ------------------------------------------------------------------- state
VARIABLES
    allowedNets,        \* parsed -cidr ranges
    allowedDomains,     \* -domain patterns
    destAddrs,          \* -dst backends
    activeConnections,  \* the process-wide counter
    conn,               \* per accepted connection, in accept order: the task's
                        \* position and its data
    arrivals,           \* connections the clients have yet to open
    menu,               \* which streams those clients may send and which replies
                        \* the backends give: "full", "few" or "none"
    probe               \* the input put to a function run on its own (a host
                        \* name for isAllowedDomain, a stream and a first chunk
                        \* for readClientHello), and the answer

vars == <<allowedNets, allowedDomains, destAddrs, activeConnections, conn,
          arrivals, menu, probe>>

Conns == DOMAIN conn

StreamsOf(m) == IF m = "full" THEN ClientStreams ELSE IF m = "few" THEN FewStreams ELSE {}

IPsOf(m) == IF m = "few" THEN FewIPs ELSE ClientIPs

RepliesOf(m) == IF m = "full" THEN BackendReplies ELSE IF m = "few" THEN FewReplies ELSE {}

NoIP == [fam |-> 0, addr |-> 0]

NewConn ==
    [ pc |-> "new",            \* position of the connection's task
      remote |-> NoIP,         \* remote address
      clientIn |-> << >>,      \* bytes of the client not yet read
      read |-> << >>,          \* every byte read from the client so far
      initialData |-> << >>,   \* buf[:n] of the first read, as handleHTTP holds it
      rbuf |-> << >>,          \* what the buffered reader of handleHTTP holds
      fullHello |-> << >>,     \* buf of readClientHello
      kind |-> "none",         \* "tls" or "plain" once sniffed
      host |-> << >>,          \* routing key
      policy |-> "none",       \* result of isAllowedDomain once evaluated
      checks |-> 0,            \* calls of isAllowedDomain
      forwardAddr |-> "",      \* backend picked by handleConnection
      choices |-> {},          \* backends that pick could have produced
      dialed |-> "",           \* backend net.Dial was called with
      dials |-> 0,             \* calls of net.Dial
      backendUp |-> FALSE,     \* a backend connection exists
      backendIn |-> << >>,     \* bytes written to the backend
      backendOut |-> << >>,    \* bytes of the backend not yet read
      clientOut |-> << >>,     \* bytes written to the client
      up |-> "idle",           \* copy loop client -> backend
      down |-> "idle",         \* copy loop backend -> client
      serverWClosed |-> FALSE, \* CloseWrite called on the backend connection
      clientWClosed |-> FALSE, \* CloseWrite called on the client connection
      clientCloses |-> 0,      \* calls of Close on the client connection
      backendCloses |-> 0,     \* calls of Close on the backend connection
      incs |-> 0,              \* increments of the counter for this connection
      decs |-> 0,              \* decrements of the counter for this connection
      outcome |-> "" ]         \* why the task ended, once it has

Init ==
    /\ \E cfg \in Configs :
          /\ allowedNets = cfg.nets
          /\ allowedDomains = cfg.domains
          /\ destAddrs = cfg.dests
    /\ activeConnections = 0
    /\ conn = << >>
    /\ arrivals = 1
    /\ menu = "full"
    /\ probe = [host |-> << >>, result |-> "unset"]

\* several clients connecting side by side
InitConc ==
    /\ \E cfg \in FewConfigs :
          /\ allowedNets = cfg.nets
          /\ allowedDomains = cfg.domains
          /\ destAddrs = cfg.dests
    /\ activeConnections = 0
    /\ conn = << >>
    /\ arrivals = MaxConns
    /\ menu = "few"
    /\ probe = [host |-> << >>, result |-> "unset"]

\* what the relay's own steps never change
Static == <<allowedNets, allowedDomains, destAddrs, menu, probe>>

\* ------------------------------------------------------------ socket I/O
\* io.ReadFull(conn, tmp) for n bytes when the client's remaining bytes are
\* in: n bytes, or a failure at end of stream after what was left
ReadFull(in, n) ==
    IF Len(in) >= n THEN [ok |-> TRUE, data |-> Take(in, n), rest |-> Drop(in, n)]
    ELSE [ok |-> FALSE, data |-> in, rest |-> << >>]

\* the outcomes of readN: ReadFull's, or a connection error before any byte
readN(in, n) == {ReadFull(in, n), [ok |-> FALSE, data |-> << >>, rest |-> in]}

\* the outcomes of one conn.Read: some bytes, or end of stream / an error
ReadOutcomes(in, sizes) ==
    {[ok |-> TRUE, data |-> Take(in, n), rest |-> Drop(in, n)] : n \in sizes}
    \cup {[ok |-> FALSE, data |-> << >>, rest |-> in]}

\* r after the read rd has taken bytes off the client's stream
Consumed(r, rd) == [r EXCEPT !.clientIn = rd.rest, !.read = r.read \o rd.data]

\* the task returns to handleConnection's deferred teardown
Fail(r, why) == [r EXCEPT !.pc = "teardown", !.outcome = why]

\* ------------------------------------------- handleHTTP / handleHTTPS steps
\* the domain check and what follows it: dial, or return
CheckDomainDialAnyway(r, host) ==
    [r EXCEPT !.host = host, !.checks = @ + 1,
              !.policy = IF isAllowedDomain(host, allowedDomains) THEN "allowed" ELSE "denied",
              !.pc = "dial"]

CheckDomain(r, host) ==
    IF isAllowedDomain(host, allowedDomains)
    THEN [r EXCEPT !.host = host, !.policy = "allowed", !.checks = @ + 1, !.pc = "dial"]
    ELSE [Fail(r, "domainDenied") EXCEPT !.host = host, !.policy = "denied",
                                         !.checks = @ + 1]

\* handleHTTPS once the whole record is buffered: parse, then the SNI check
handleHTTPS(r) ==
    LET h == ParseHandshake(r.fullHello)
    IN  IF h.panic THEN Fail(r, "panic")
        ELSE IF h.err
        THEN Fail(r, IF h.hello = "nil" THEN "parseErr" ELSE "noSNI")
        ELSE CheckDomain(r, h.ServerName)

\* readClientHello once the record header is buffered
AfterHeaderNoBody(r) ==
    IF RecordLen(r.fullHello) = 0 THEN Fail(r, "parseErr") ELSE handleHTTPS(r)

AfterHeader(r) ==
    IF RecordLen(r.fullHello) = 0 THEN Fail(r, "parseErr")
    ELSE IF Len(r.fullHello) < 5 + RecordLen(r.fullHello)
    THEN [r EXCEPT !.pc = "helloBody"]
    ELSE handleHTTPS(r)

\* readClientHello once readN for the rest of the record header has returned
HeaderRead(r, rd) ==
    IF rd.ok THEN AfterHeader([Consumed(r, rd) EXCEPT !.fullHello = @ \o rd.data])
    ELSE Fail(Consumed(r, rd), "readErr")

\* handleHTTPS once readN for the rest of the record has returned
BodyRead(r, rd) ==
    IF rd.ok THEN handleHTTPS([Consumed(r, rd) EXCEPT !.fullHello = @ \o rd.data])
    ELSE Fail(Consumed(r, rd), "readErr")

\* readClientHello from its first line, buf being a copy of the first chunk
readClientHello(r) ==
    IF Len(r.fullHello) < 5 THEN [r EXCEPT !.pc = "helloHdr"] ELSE AfterHeader(r)

\* handleHTTP while http.ReadRequest runs on the buffered reader: it needs
\* another read, fails, or yields the Host to check
handleHTTPIgnoreError(r) ==
    LET q == ReadRequest(r.rbuf)
    IN  IF q.st = "need" THEN [r EXCEPT !.pc = "http"]
        ELSE CheckDomain(r, StripPort(q.host))

handleHTTP(r) ==
    LET q == ReadRequest(r.rbuf)
    IN  IF q.st = "need" THEN [r EXCEPT !.pc = "http"]
        ELSE IF q.st = "bad" THEN Fail(r, "parseErr")
        ELSE CheckDomain(r, StripPort(q.host))

\* the bytes written to the backend before the relay starts
InitialBytesOneRecord(r) ==
    IF r.kind = "tls" THEN Take(r.fullHello, 5 + RecordLen(r.fullHello)) ELSE r.initialData

InitialBytes(r) == IF r.kind = "tls" THEN r.fullHello ELSE r.initialData

\* ----------------------------------------------------------------- actions
\* main's loop: accept, IP check failed, close
AcceptDeny ==
    /\ arrivals > 0
    /\ \E ip \in IPsOf(menu), s \in StreamsOf(menu) :
          /\ ~ipAllowed(allowedNets, ip)
          /\ conn' = Append(conn,
                        [NewConn EXCEPT !.pc = "denied", !.remote = ip, !.clientIn = s,
                                        !.clientCloses = @ + 1, !.outcome = "ipDenied"])
    /\ arrivals' = arrivals - 1
    /\ UNCHANGED <<Static, activeConnections>>

\* main's loop: accept, IP check passed, count, start the task
AcceptAllowInline ==
    /\ arrivals > 0
    /\ activeConnections = 0
    /\ \E ip \in IPsOf(menu), s \in StreamsOf(menu) :
          /\ ipAllowed(allowedNets, ip)
          /\ conn' = Append(conn,
                        [NewConn EXCEPT !.pc = "sniff", !.remote = ip, !.clientIn = s,
                                        !.incs = @ + 1])
    /\ arrivals' = arrivals - 1
    /\ activeConnections' = activeConnections + 1
    /\ UNCHANGED Static

AcceptAllow ==
    /\ arrivals > 0
    /\ \E ip \in IPsOf(menu), s \in StreamsOf(menu) :
          /\ ipAllowed(allowedNets, ip)
          /\ conn' = Append(conn,
                        [NewConn EXCEPT !.pc = "sniff", !.remote = ip, !.clientIn = s,
                                        !.incs = @ + 1])
    /\ arrivals' = arrivals - 1
    /\ activeConnections' = activeConnections + 1
    /\ UNCHANGED Static

\* handleConnection: the first read, the TLS/plaintext split, the backend
\* pick, and the parser up to its next read
handleConnectionAllPlain(r) ==
    LET addr == forwardAddrFor("plain", destAddrs)
        s == [r EXCEPT !.kind = "plain", !.forwardAddr = addr, !.choices = {addr},
                       !.rbuf = r.initialData]
    IN  IF addr = "" THEN Fail(s, "noBackend") ELSE handleHTTP(s)

handleConnection(r) ==
    LET kind == IF Len(r.initialData) > 0 /\ r.initialData[1] = TLSHandshake
                THEN "tls" ELSE "plain"
        addr == forwardAddrFor(kind, destAddrs)
        s == [r EXCEPT !.kind = kind, !.forwardAddr = addr, !.choices = {addr},
                       !.fullHello = IF kind = "tls" THEN r.initialData ELSE << >>,
                       !.rbuf = IF kind = "tls" THEN << >> ELSE r.initialData,
                       !.initialData = IF kind = "tls" THEN << >> ELSE @]
    IN  IF addr = "" THEN Fail(s, "noBackend")
        ELSE IF kind = "tls" THEN readClientHello(s) ELSE handleHTTP(s)

Sniff(c) ==
    /\ conn[c].pc = "sniff"
    /\ \E rd \in ReadOutcomes(conn[c].clientIn, ReadSizes(Len(conn[c].clientIn))) :
          conn' = [conn EXCEPT ![c] =
                     IF rd.ok
                     THEN handleConnection([Consumed(@, rd) EXCEPT !.initialData = rd.data])
                     ELSE Fail(@, "readErr")]
    /\ UNCHANGED <<Static, activeConnections, arrivals>>

\* readClientHello blocked in readN for the rest of the record header
HelloHeader(c) ==
    /\ conn[c].pc = "helloHdr"
    /\ \E rd \in readN(conn[c].clientIn, 5 - Len(conn[c].fullHello)) :
          conn' = [conn EXCEPT ![c] = HeaderRead(@, rd)]
    /\ UNCHANGED <<Static, activeConnections, arrivals>>

\* readClientHello blocked in readN for the rest of the record
HelloBody(c) ==
    /\ conn[c].pc = "helloBody"
    /\ \E rd \in readN(conn[c].clientIn,
                               5 + RecordLen(conn[c].fullHello) - Len(conn[c].fullHello)) :
          conn' = [conn EXCEPT ![c] = BodyRead(@, rd)]
    /\ UNCHANGED <<Static, activeConnections, arrivals>>

\* http.ReadRequest blocked in a read of the connection through the
\* buffered reader
ReadHead(c) ==
    /\ conn[c].pc = "http"
    /\ \E rd \in ReadOutcomes(conn[c].clientIn, 1..Len(conn[c].clientIn)) :
          conn' = [conn EXCEPT ![c] =
                     IF rd.ok
                     THEN handleHTTP([Consumed(@, rd) EXCEPT !.rbuf = @ \o rd.data])
                     ELSE Fail(@, "readErr")]
    /\ UNCHANGED <<Static, activeConnections, arrivals>>

\* net.Dial: a backend connection, or an error
Dial(c) ==
    /\ conn[c].pc = "dial"
    /\ \/ \E rep \in RepliesOf(menu) :
             conn' = [conn EXCEPT ![c] =
                        [@ EXCEPT !.pc = "write", !.dialed = conn[c].forwardAddr, !.dials = @ + 1,
                                  !.backendUp = TRUE, !.backendOut = rep]]
       \/ conn' = [conn EXCEPT ![c] =
                     [Fail(@, "dialErr") EXCEPT !.dialed = conn[c].forwardAddr, !.dials = @ + 1]]
    /\ UNCHANGED <<Static, activeConnections, arrivals>>

\* forwardConn.Write of the consumed bytes; on error the deferred
\* forwardConn.Close runs as the handler returns
InitialWriteLeak(c) ==
    /\ conn[c].pc = "write"
    /\ \/ conn' = [conn EXCEPT ![c] =
                     [@ EXCEPT !.pc = "relay", !.backendIn = @ \o InitialBytes(conn[c]),
                               !.up = "copy", !.down = "copy"]]
       \/ conn' = [conn EXCEPT ![c] = Fail(@, "writeErr")]
    /\ UNCHANGED <<Static, activeConnections, arrivals>>

InitialWrite(c) ==
    /\ conn[c].pc = "write"
    /\ \/ conn' = [conn EXCEPT ![c] =
                     [@ EXCEPT !.pc = "relay", !.backendIn = @ \o InitialBytes(conn[c]),
                               !.up = "copy", !.down = "copy"]]
       \/ conn' = [conn EXCEPT ![c] =
                     [Fail(@, "writeErr") EXCEPT !.backendCloses = @ + 1, !.backendOut = << >>]]
    /\ UNCHANGED <<Static, activeConnections, arrivals>>

\* io.Copy(serverConn, clientConn): one read of the client written to the
\* backend
\* a line that is no Host line, or one whose host the domain list allows
Passes(t) ==
    IsHostTok(t) => isAllowedDomain(StripPort(HostValues[t - TokHostBase]), allowedDomains)

UpCopyInspect(c) ==
    /\ conn[c].pc = "relay" /\ conn[c].up = "copy"
    /\ \E n \in 1..Len(conn[c].clientIn) :
          conn' = [conn EXCEPT ![c] =
                     [@ EXCEPT !.clientIn = Drop(@, n),
                               !.read = @ \o Take(conn[c].clientIn, n),
                               !.backendIn = @ \o SelectSeq(Take(conn[c].clientIn, n), Passes)]]
    /\ UNCHANGED <<Static, activeConnections, arrivals>>

UpCopy(c) ==
    /\ conn[c].pc = "relay" /\ conn[c].up = "copy"
    /\ \E n \in 1..Len(conn[c].clientIn) :
          conn' = [conn EXCEPT ![c] =
                     [@ EXCEPT !.clientIn = Drop(@, n),
                               !.read = @ \o Take(conn[c].clientIn, n),
                               !.backendIn = @ \o Take(conn[c].clientIn, n)]]
    /\ UNCHANGED <<Static, activeConnections, arrivals>>

\* io.Copy(serverConn, clientConn) ends, at end of stream or on an error;
\* then serverConn.CloseWrite and wg.Done
UpEndFullClose(c) ==
    /\ conn[c].pc = "relay" /\ conn[c].up = "copy"
    /\ \/ /\ conn[c].clientIn = << >>
          /\ conn' = [conn EXCEPT ![c] =
                        [@ EXCEPT !.up = "eof", !.serverWClosed = TRUE,
                                  !.backendCloses = @ + 1, !.backendOut = << >>]]
       \/ conn' = [conn EXCEPT ![c] =
                     [@ EXCEPT !.up = "error", !.serverWClosed = TRUE,
                               !.backendCloses = @ + 1, !.backendOut = << >>]]
    /\ UNCHANGED <<Static, activeConnections, arrivals>>

UpEnd(c) ==
    /\ conn[c].pc = "relay" /\ conn[c].up = "copy"
    /\ \/ /\ conn[c].clientIn = << >>
          /\ conn' = [conn EXCEPT ![c] =
                        [@ EXCEPT !.up = "eof", !.serverWClosed = TRUE]]
       \/ conn' = [conn EXCEPT ![c] =
                     [@ EXCEPT !.up = "error", !.serverWClosed = TRUE]]
    /\ UNCHANGED <<Static, activeConnections, arrivals>>

\* io.Copy(clientConn, serverConn): one read of the backend written to the
\* client
DownCopy(c) ==
    /\ conn[c].pc = "relay" /\ conn[c].down = "copy"
    /\ \E n \in 1..Len(conn[c].backendOut) :
          conn' = [conn EXCEPT ![c] =
                     [@ EXCEPT !.backendOut = Drop(@, n),
                               !.clientOut = @ \o Take(conn[c].backendOut, n)]]
    /\ UNCHANGED <<Static, activeConnections, arrivals>>

\* io.Copy(clientConn, serverConn) ends; then clientConn.CloseWrite and
\* wg.Done
DownEnd(c) ==
    /\ conn[c].pc = "relay" /\ conn[c].down = "copy"
    /\ \/ /\ conn[c].backendOut = << >>
          /\ conn' = [conn EXCEPT ![c] =
                        [@ EXCEPT !.down = "eof", !.clientWClosed = TRUE]]
       \/ conn' = [conn EXCEPT ![c] =
                     [@ EXCEPT !.down = "error", !.clientWClosed = TRUE]]
    /\ UNCHANGED <<Static, activeConnections, arrivals>>

\* wg.Wait returns, handleTCPForward returns, and the handler's deferred
\* forwardConn.Close runs
Finished(d) == d \in {"eof", "error"}

RelayReturnEarly(c) ==
    /\ conn[c].pc = "relay"
    /\ Finished(conn[c].up) \/ Finished(conn[c].down)
    /\ conn' = [conn EXCEPT ![c] =
                  [Fail(@, "relayed") EXCEPT !.backendCloses = @ + 1, !.backendOut = << >>]]
    /\ UNCHANGED <<Static, activeConnections, arrivals>>

RelayReturnStuck(c) ==
    /\ conn[c].pc = "relay"
    /\ Finished(conn[c].up) /\ Finished(conn[c].down) /\ conn[c].backendCloses > 0
    /\ conn' = [conn EXCEPT ![c] =
                  [Fail(@, "relayed") EXCEPT !.backendCloses = @ + 1, !.backendOut = << >>]]
    /\ UNCHANGED <<Static, activeConnections, arrivals>>

RelayReturn(c) ==
    /\ conn[c].pc = "relay"
    /\ Finished(conn[c].up) /\ Finished(conn[c].down)
    /\ conn' = [conn EXCEPT ![c] =
                  [Fail(@, "relayed") EXCEPT !.backendCloses = @ + 1, !.backendOut = << >>]]
    /\ UNCHANGED <<Static, activeConnections, arrivals>>

\* handleConnection's deferred function: decrement, close the client; what
\* the client had sent and nobody read is dropped with the socket
TeardownNoDecrement(c) ==
    /\ conn[c].pc = "teardown"
    /\ conn' = [conn EXCEPT ![c] = [@ EXCEPT !.pc = "done", !.clientCloses = @ + 1,
                                              !.clientIn = << >>, !.rbuf = << >>]]
    /\ UNCHANGED <<Static, activeConnections, arrivals>>

Teardown(c) ==
    /\ conn[c].pc = "teardown"
    /\ activeConnections' = activeConnections - 1
    /\ conn' = [conn EXCEPT ![c] =
                  [@ EXCEPT !.pc = "done", !.decs = @ + 1, !.clientCloses = @ + 1,
                            !.clientIn = << >>, !.rbuf = << >>]]
    /\ UNCHANGED <<Static, arrivals>>

Next ==
    \/ AcceptDeny
    \/ AcceptAllow
    \/ \E c \in Conns : Sniff(c)
    \/ \E c \in Conns : HelloHeader(c)
    \/ \E c \in Conns : HelloBody(c)
    \/ \E c \in Conns : ReadHead(c)
    \/ \E c \in Conns : Dial(c)
    \/ \E c \in Conns : InitialWrite(c)
    \/ \E c \in Conns : UpCopy(c)
    \/ \E c \in Conns : UpEnd(c)
    \/ \E c \in Conns : DownCopy(c)
    \/ \E c \in Conns : DownEnd(c)
    \/ \E c \in Conns : RelayReturn(c)
    \/ \E c \in Conns : Teardown(c)

Spec == Init /\ [][Next]_vars

SpecConc == InitConc /\ [][Next]_vars

\* the steps of the task of connection c, its relay goroutines included
TaskStep(c) ==
    /\ c \in Conns
    /\ \/ Sniff(c) \/ HelloHeader(c) \/ HelloBody(c) \/ ReadHead(c)
       \/ Dial(c) \/ InitialWrite(c)
       \/ UpCopy(c) \/ UpEnd(c) \/ DownCopy(c) \/ DownEnd(c)
       \/ RelayReturn(c) \/ Teardown(c)

\* the Go scheduler runs every goroutine that can run, and every read, dial
\* and write a task waits in returns
TaskFairness == \A c \in 1..MaxConns : WF_vars(TaskStep(c))

SpecLive == Init /\ [][Next]_vars /\ TaskFairness

\* ------------------------------------------- isAllowedDomain on its own
MaxHostLen == 3
MaxPatLen == 3

RECURSIVE SeqsUpTo(_, _)
SeqsUpTo(alphabet, n) ==
    IF n = 0 THEN {<< >>}
    ELSE LET shorter == SeqsUpTo(alphabet, n - 1)
         IN  shorter \cup {Append(q, a) : q \in shorter, a \in alphabet}

\* a letter, a digit, '-', '.', '*'
HostAlphabet == {97, 49, 45, ChDot, ChStar}
PatAlphabet == {97, ChDot, ChStar}

ExampleOrg == <<101, 120, 97, 109, 112, 108, 101, 46, 111, 114, 103>>
StarExampleOrg == <<42, 46, 101, 120, 97, 109, 112, 108, 101, 46, 111, 114, 103>>
SubExampleOrg == <<115, 117, 98, 46, 101, 120, 97, 109, 112, 108, 101, 46, 111, 114, 103>>
ABExampleOrg == <<97, 46, 98, 46, 101, 120, 97, 109, 112, 108, 101, 46, 111, 114, 103>>

ProbeHosts == SeqsUpTo(HostAlphabet, MaxHostLen) \cup {ExampleOrg, SubExampleOrg, ABExampleOrg}

ProbePatterns == SeqsUpTo(PatAlphabet, MaxPatLen) \cup {<<ChStar, ChDot, 97>>}

\* one pattern, or a pattern next to one of a few others
ProbeLists ==
    {<<q>> : q \in ProbePatterns}
    \cup {<<q, o>> : q \in ProbePatterns, o \in {<<ChStar>>, <<97>>}}
    \cup {<<o, q>> : q \in ProbePatterns, o \in {<<ChStar>>}}
    \cup {<<StarExampleOrg>>, <<<<97>>, StarExampleOrg>>}

InitDomain ==
    /\ allowedNets = NetsOne
    /\ allowedDomains \in ProbeLists
    /\ destAddrs = <<"b0">>
    /\ activeConnections = 0
    /\ conn = << >>
    /\ arrivals = 0
    /\ menu = "none"
    /\ probe \in {[host |-> h, result |-> "unset"] : h \in ProbeHosts}

\* a call of isAllowedDomain
AskDomain ==
    /\ probe.result = "unset"
    /\ probe' = [probe EXCEPT !.result =
                   IF isAllowedDomain(probe.host, allowedDomains) THEN "allow" ELSE "deny"]
    /\ UNCHANGED <<allowedNets, allowedDomains, destAddrs, activeConnections, conn,
                   arrivals, menu>>

NextDomain == AskDomain

SpecDomain == InitDomain /\ [][NextDomain]_vars

\* ------------------------------------------- readClientHello on its own
\* values put in place of a byte of a record
LengthValues == {0, 1, 2, 40, 255}

HelloBases == {HelloAB, HelloXY, HelloNoSNI}

\* the bytes of a record that are not the 32 random bytes: record length,
\* handshake type and length, version, and everything from the session id on
Fields(s) == (4..11) \cup (44..Len(s))

\* records as a client may send them: well-formed, with one byte replaced,
\* cut short, or followed by the start of the next record
HelloProbes ==
    HelloBases
    \cup UNION {{[b EXCEPT ![i] = v] : i \in Fields(b), v \in LengthValues} : b \in HelloBases}
    \cup UNION {{Take(b, n) : n \in 1..Len(b)} : b \in HelloBases}
    \cup {b \o <<23, 5>> : b \in HelloBases}

\* the task's variables when handleHTTPS calls readClientHello with the
\* first k bytes of stream s as the first chunk
HelloStart(s, k) ==
    [NewConn EXCEPT !.pc = "sniff", !.kind = "tls", !.clientIn = Drop(s, k),
                    !.read = Take(s, k), !.fullHello = Take(s, k)]

\* readClientHello's readN for the rest of the 5-byte record header, when the
\* first chunk was shorter than the header
ThenHeader(r) ==
    IF r.pc = "helloHdr"
    THEN HeaderRead(r, ReadFull(r.clientIn, 5 - Len(r.fullHello)))
    ELSE r

\* readClientHello's readN for the rest of the record body, when the bytes
\* buffered so far are fewer than the record
ThenBody(r) ==
    IF r.pc = "helloBody"
    THEN BodyRead(r, ReadFull(r.clientIn, 5 + RecordLen(r.fullHello) - Len(r.fullHello)))
    ELSE r

\* readClientHello run to its return, every readN getting the bytes the
\* client sent
HelloRun(s, k) == ThenBody(ThenHeader(readClientHello(HelloStart(s, k))))

\* what readClientHello returned: the host name, the error ("" for nil), the
\* consumed bytes (nil with a nil hello), and what it had buffered by then
HelloOutput(r) ==
    [ host |-> r.host,
      err |-> r.outcome,
      buf |-> IF r.outcome \in {"readErr", "parseErr", "panic"} THEN << >> ELSE r.fullHello,
      buffered |-> r.fullHello ]

NoOutput == [host |-> << >>, err |-> "", buf |-> << >>, buffered |-> << >>]

InitHello ==
    /\ allowedNets = NetsOne
    /\ allowedDomains = << <<ChStar>> >>
    /\ destAddrs = <<"b0", "b1">>
    /\ activeConnections = 0
    /\ conn = << >>
    /\ arrivals = 0
    /\ menu = "none"
    /\ probe \in UNION {{[stream |-> s, first |-> k, asked |-> FALSE, result |-> NoOutput] :
                             k \in 1..Len(s)} : s \in HelloProbes}

\* a call of readClientHello
AskHello ==
    /\ ~probe.asked
    /\ probe' = [probe EXCEPT !.asked = TRUE,
                              !.result = HelloOutput(HelloRun(probe.stream, probe.first))]
    /\ UNCHANGED <<allowedNets, allowedDomains, destAddrs, activeConnections, conn,
                   arrivals, menu>>

NextHello == AskHello

SpecHello == InitHello /\ [][NextHello]_vars

\* ------------------------------------------------------------------ claims
IsWildcard == allowedDomains = << <<ChStar>> >>

Ended(c) == conn[c].pc \in {"denied", "done"}

\* the addresses a range covers, bit by bit from the top
Bit(a, i) == (a \div Pow2(AddrBits - i)) % 2

InSomeRange(ip) ==
    \E k \in 1..Len(allowedNets) :
        /\ allowedNets[k].fam = ip.fam
        /\ \A i \in 1..allowedNets[k].len : Bit(ip.addr, i) = Bit(allowedNets[k].base, i)

\* whether a pattern matches a host name when '*' stands for any run of bytes
\* and every other byte for itself
RECURSIVE Glob(_, _)
Glob(pat, h) ==
    IF pat = << >> THEN h = << >>
    ELSE IF Head(pat) = ChStar
         THEN \E n \in 0..Len(h) : Glob(Tail(pat), Drop(h, n))
    ELSE h # << >> /\ Head(h) = Head(pat) /\ Glob(Tail(pat), Tail(h))

\* C1: no backend is dialed and no byte reaches a backend unless the
\* connection passed the IP check and the domain check; a connection rejected
\* by either is closed without a dial
C1_NoDialBeforePolicy ==
    \A c \in Conns :
        /\ (conn[c].dials > 0 \/ conn[c].backendIn # << >> \/ conn[c].backendUp)
              => /\ InSomeRange(conn[c].remote)
                 /\ conn[c].policy = "allowed"
                 /\ isAllowedDomain(conn[c].host, allowedDomains)
        /\ (conn[c].outcome \in {"ipDenied", "domainDenied"} \/ conn[c].policy = "denied")
              => /\ conn[c].dials = 0
                 /\ conn[c].backendIn = << >>
                 /\ Ended(c) => conn[c].clientCloses = 1

C1_Witness ==
    \E c \in Conns :
        /\ ~IsWildcard
        /\ conn[c].policy = "allowed"
        /\ conn[c].dials = 1 /\ conn[c].backendIn # << >>

\* C2: for a plaintext connection that passed policy, once the client's
\* stream has been copied to its end the backend has received exactly the
\* bytes read from the client, in order
C2_BackendSeesClientStream ==
    \A c \in Conns :
        (conn[c].kind = "plain" /\ conn[c].policy = "allowed" /\ conn[c].up = "eof")
            => conn[c].backendIn = conn[c].read

\* C3: the counter is the number of connections that passed the IP check and
\* have not torn down; one increment and at most one decrement for each of
\* them, none for a denied connection
C3_CounterMatchesLiveTasks ==
    /\ activeConnections =
          Cardinality({c \in Conns : conn[c].pc \notin {"denied", "done"}})
    /\ activeConnections >= 0
    /\ \A c \in Conns :
          /\ conn[c].pc # "denied" => InSomeRange(conn[c].remote) /\ conn[c].incs = 1
          /\ conn[c].pc = "denied" => conn[c].incs = 0 /\ conn[c].decs = 0
          /\ conn[c].decs = IF conn[c].pc = "done" THEN 1 ELSE 0

C3_Witness ==
    \E c, d \in Conns :
        /\ conn[c].pc = "done" /\ conn[c].outcome = "relayed"
        /\ conn[d].pc = "relay"
        /\ activeConnections = 1

\* C4: the relay has returned only if both copy directions have finished,
\* the backend connection is closed as it returns, and once the task has
\* ended the client connection is closed and the counter decremented
C4_RelayWaitsForBoth ==
    \A c \in Conns :
        /\ conn[c].pc = "relay" => conn[c].backendCloses = 0 /\ conn[c].clientCloses = 0
        /\ conn[c].outcome = "relayed"
              => /\ Finished(conn[c].up) /\ Finished(conn[c].down)
                 /\ conn[c].backendCloses = 1
                 /\ conn[c].pc = "done" => conn[c].clientCloses = 1 /\ conn[c].decs = 1

C4_Witness ==
    \E c \in Conns :
        /\ conn[c].pc = "done" /\ conn[c].outcome = "relayed"
        /\ conn[c].up = "error" /\ conn[c].down = "eof"

C5_WitnessDenied ==
    \E c \in Conns :
        /\ Len(allowedNets) = 2
        /\ conn[c].remote.fam = 4
        /\ conn[c].pc = "denied"

\* C6: with one backend every dial goes to it; with two or more and a domain
\* list other than ["*"], plaintext dials the first backend and TLS the
\* second, never a later one
C6_TargetByProtocol ==
    \A c \in Conns :
        conn[c].dials > 0 =>
            /\ Len(destAddrs) = 1 => conn[c].dialed = destAddrs[1]
            /\ (Len(destAddrs) >= 2 /\ ~IsWildcard)
                  => /\ conn[c].kind = "plain" => conn[c].dialed = destAddrs[1]
                     /\ conn[c].kind = "tls" => conn[c].dialed = destAddrs[2]
                     /\ \A k \in 3..Len(destAddrs) : conn[c].dialed # destAddrs[k]

C6_Witness ==
    \E c \in Conns :
        /\ Len(destAddrs) = 3 /\ ~IsWildcard
        /\ conn[c].kind = "tls" /\ conn[c].dials = 1 /\ conn[c].dialed = "b1"

C6_WitnessOneBackend ==
    \E c \in Conns :
        /\ Len(destAddrs) = 1
        /\ conn[c].kind = "tls" /\ conn[c].dials = 1 /\ conn[c].dialed = "b0"

\* C7: with two or more backends and the domain list ["*"], every configured
\* backend is a possible target of a connection, whatever its protocol
C7_AnyBackendUnderWildcard ==
    \A c \in Conns :
        (Len(destAddrs) >= 2 /\ IsWildcard /\ conn[c].kind # "none")
            => conn[c].choices = {destAddrs[k] : k \in 1..Len(destAddrs)}

\* C8: a well-formed ClientHello without SNI is checked against the domain
\* list with an empty routing key, so under ["*"] it is allowed and dialed
C8_NoSNINotFatal ==
    \A c \in Conns :
        (IsWildcard /\ conn[c].fullHello = HelloNoSNI /\ conn[c].pc = "done")
            => conn[c].policy = "allowed" /\ conn[c].dials = 1

\* a connection whose parser ended without a host name
EmptyKey(c) ==
    \/ conn[c].policy # "none" /\ conn[c].host = << >>
    \/ conn[c].outcome = "noSNI"

OnlyStars(pat) == \A i \in 1..Len(pat) : pat[i] = ChStar

C10_AllowedIffGlob ==
    probe.result # "unset" =>
        /\ (probe.result = "allow") <=>
              \/ allowedDomains = << <<ChStar>> >>
              \/ \E k \in 1..Len(allowedDomains) : Glob(allowedDomains[k], probe.host)
        /\ allowedDomains = <<StarExampleOrg>> =>
              /\ probe.host \in {SubExampleOrg, ABExampleOrg} => probe.result = "allow"
              /\ probe.host = ExampleOrg => probe.result = "deny"
        /\ (allowedDomains = << <<ChStar>> >> /\ probe.host = << >>) => probe.result = "allow"

C10_Witness ==
    /\ probe.result = "deny"
    /\ probe.host = ExampleOrg
    /\ allowedDomains = <<StarExampleOrg>>

C10_WitnessAllow ==
    /\ probe.result = "allow"
    /\ probe.host = ABExampleOrg
    /\ allowedDomains = <<StarExampleOrg>>

\* well-formed ClientHello records with a server_name extension, and the
\* host_name each carries
SNIHellos == { [bytes |-> HelloAB, name |-> NameAB], [bytes |-> HelloXY, name |-> NameXY] }

IsPrefix(p, s) == Len(p) <= Len(s) /\ Take(s, Len(p)) = p

\* C11: once a TLS connection has read a whole ClientHello record that
\* carries a server_name, the parser has ended with that name and with a
\* buffer holding exactly the bytes read; the backend receives that buffer
\* first and unchanged, followed only by relayed bytes
C11_HelloParsedAndForwarded ==
    \A c \in Conns : \A w \in SNIHellos :
        (conn[c].kind = "tls" /\ IsPrefix(w.bytes, conn[c].read))
            => /\ conn[c].outcome \notin {"parseErr", "noSNI", "readErr"}
               /\ conn[c].policy # "none"
               /\ conn[c].host = w.name
               /\ IsPrefix(w.bytes, conn[c].fullHello)
               /\ IsPrefix(conn[c].fullHello, conn[c].read)
               /\ conn[c].pc \in {"dial", "write"}
                     => conn[c].fullHello = conn[c].read /\ conn[c].backendIn = << >>
               /\ conn[c].pc = "relay" => conn[c].backendIn # << >>
               /\ conn[c].backendIn # << >>
                     => /\ IsPrefix(conn[c].fullHello, conn[c].backendIn)
                        /\ conn[c].backendIn = conn[c].read

C11_Witness ==
    \E c \in Conns :
        /\ conn[c].kind = "tls" /\ conn[c].host = NameAB
        /\ conn[c].fullHello = HelloAB
        /\ conn[c].backendIn = HelloAB \o <<23, 5>>

\* a stream that is one record or the beginning of one: nothing follows the
\* bytes its header declares
IsRecordStream(s) == Len(s) < 5 \/ Len(s) <= 5 + RecordLen(s)

\* C12: a record delivered with any first chunk, the rest read afterwards,
\* gives the host name, the error and the consumed bytes that the same record
\* gives when one read delivers all of it
C12_SplitParsesAlike ==
    (probe.asked /\ IsRecordStream(probe.stream)) =>
        LET one == HelloOutput(HelloRun(probe.stream, Len(probe.stream)))
        IN  /\ probe.result.host = one.host
            /\ probe.result.err = one.err
            /\ probe.result.buf = one.buf

C12_Witness ==
    /\ probe.asked
    /\ probe.stream = HelloAB /\ probe.first = 3
    /\ probe.result.host = NameAB /\ probe.result.err = ""
    /\ probe.result.buf = HelloAB

C12_WitnessError ==
    /\ probe.asked
    /\ probe.stream = Take(HelloAB, 30) /\ probe.first = 10
    /\ probe.result.err = "readErr"

\* C13: every connection that passed the IP check eventually has torn down,
\* with the client connection closed and its one decrement made; and when no
\* connection is left to come and all have ended, the counter is back at 0,
\* its value before any was accepted
C13_EveryTaskTearsDown ==
    /\ \A c \in 1..MaxConns :
          [](c \in Conns /\ conn[c].pc # "denied"
                => <>(/\ c \in Conns
                      /\ conn[c].pc = "done"
                      /\ conn[c].clientCloses = 1
                      /\ conn[c].decs = 1))
    /\ []((arrivals = 0 /\ \A c \in Conns : Ended(c)) => activeConnections = 0)

C13_Witness ==
    \E c \in Conns :
        /\ conn[c].pc = "done" /\ conn[c].outcome = "relayed"
        /\ conn[c].up = "eof" /\ conn[c].down = "eof"
        /\ conn[c].clientOut # << >>
        /\ activeConnections = 0

\* C14: neither connection is ever closed twice; a connection that has ended
\* has its client side closed once, and its backend side closed once if a
\* dial succeeded and never otherwise; the backend is closed by the time the
\* handler has returned
C14_ClosedExactlyOnce ==
    \A c \in Conns :
        /\ conn[c].clientCloses <= 1 /\ conn[c].backendCloses <= 1
        /\ ~conn[c].backendUp => conn[c].backendCloses = 0
        /\ Ended(c) => conn[c].clientCloses = 1
        /\ ~Ended(c) => conn[c].clientCloses = 0
        /\ (conn[c].pc \in {"teardown", "done"} /\ conn[c].backendUp)
              => conn[c].backendCloses = 1
        /\ conn[c].pc \in {"write", "relay"}
              => conn[c].backendUp /\ conn[c].backendCloses = 0

C14_Witness ==
    \E c \in Conns :
        /\ conn[c].pc = "done" /\ conn[c].outcome = "writeErr"
        /\ conn[c].clientCloses = 1 /\ conn[c].backendCloses = 1

C14_WitnessDialError ==
    \E c \in Conns :
        /\ conn[c].pc = "done" /\ conn[c].outcome = "dialErr"
        /\ conn[c].clientCloses = 1 /\ conn[c].backendCloses = 0

\* what holds of a relay one of whose directions has ended
HalfClosed(c) ==
    /\ Finished(conn[c].up) => conn[c].serverWClosed
    /\ Finished(conn[c].down) => conn[c].clientWClosed
    /\ conn[c].pc = "relay"
          => /\ conn[c].backendCloses = 0 /\ conn[c].clientCloses = 0
             /\ (conn[c].down = "copy" /\ conn[c].backendOut # << >>) => ENABLED DownCopy(c)
             /\ (conn[c].up = "copy" /\ conn[c].clientIn # << >>) => ENABLED UpCopy(c)
    /\ conn[c].down = "eof" => conn[c].clientOut \in RepliesOf(menu)

\* the step that ends one direction leaves the other direction, the bytes it
\* has yet to carry and the bytes it has carried as they were
EndsAlone(c) ==
    /\ (conn[c].up = "copy" /\ conn'[c].up # "copy")
          => /\ conn'[c].down = conn[c].down
             /\ conn'[c].backendOut = conn[c].backendOut
             /\ conn'[c].clientOut = conn[c].clientOut
             /\ conn'[c].pc = "relay"
    /\ (conn[c].down = "copy" /\ conn'[c].down # "copy")
          => /\ conn'[c].up = conn[c].up
             /\ conn'[c].clientIn = conn[c].clientIn
             /\ conn'[c].backendIn = conn[c].backendIn
             /\ conn'[c].pc = "relay"

\* C15: a direction that ends half-closes its destination and closes
\* neither connection; the other direction is untouched by that step, can
\* still copy what its source has left, and when it ends at end of stream
\* it has delivered all its source sent
C15_HalfCloseKeepsOtherDirection ==
    /\ [](\A c \in Conns : HalfClosed(c))
    /\ [][\A c \in Conns : EndsAlone(c)]_vars

C15_Witness ==
    \E c \in Conns :
        /\ conn[c].pc = "relay" /\ conn[c].up = "error" /\ conn[c].serverWClosed
        /\ conn[c].down = "copy"
        /\ conn[c].clientOut = <<82>> /\ conn[c].backendOut = <<83>>

\* the accept loop is never held up by a task: while connections are still
\* to come, it can take the next one, whatever the tasks are doing
AcceptNeverBlocked ==
    arrivals > 0 =>
        /\ (\E ip \in IPsOf(menu) : ipAllowed(allowedNets, ip)) => ENABLED AcceptAllow
        /\ (\E ip \in IPsOf(menu) : ~ipAllowed(allowedNets, ip)) => ENABLED AcceptDeny

\* a step is an accept, which changes no connection there is, or a step of
\* one task, which changes that connection alone and nothing of the accept
\* loop; the configuration never changes; the counter changes only with an
\* accept or with the teardown of the task that steps
StepIsLocal ==
    /\ Len(conn') >= Len(conn)
    /\ Len(conn') > Len(conn) => \A c \in Conns : conn'[c] = conn[c]
    /\ Len(conn') = Len(conn)
          => /\ arrivals' = arrivals
             /\ \A c, d \in Conns :
                   (conn'[c] # conn[c] /\ conn'[d] # conn[d]) => c = d
             /\ activeConnections' # activeConnections
                   => \E c \in Conns : conn[c].pc = "teardown" /\ conn'[c].pc = "done"
    /\ <<allowedNets, allowedDomains, destAddrs>>' = <<allowedNets, allowedDomains, destAddrs>>

\* C16: the accept loop can accept, gate and dispatch whatever the tasks are
\* blocked in, and a step of one task, an error included, changes nothing of
\* the accept loop or of another task but the shared counter
C16_TasksAreIsolated ==
    /\ []AcceptNeverBlocked
    /\ [][StepIsLocal]_vars

C16_Witness ==
    /\ Len(conn) = 2
    /\ conn[1].pc = "helloBody"
    /\ conn[2].pc = "done" /\ conn[2].outcome = "readErr"
    /\ activeConnections = 1

C16_WitnessRelay ==
    /\ Len(conn) = 2
    /\ conn[1].pc = "relay"
    /\ conn[2].pc = "done" /\ conn[2].outcome = "dialErr"

\* C17: a connection is handled as TLS iff the first byte its first read
\* returned is 0x16, as plaintext otherwise; a connection whose first read
\* failed or found the stream at its end ends with nothing read, no parser
\* run and no dial
C17_SniffFirstByte ==
    \A c \in Conns :
        /\ conn[c].kind # "none"
              => /\ conn[c].read # << >>
                 /\ conn[c].kind = "tls" <=> conn[c].read[1] = TLSHandshake
                 /\ conn[c].kind = "plain" <=> conn[c].read[1] # TLSHandshake
        /\ (conn[c].kind = "none" /\ conn[c].pc \in {"teardown", "done"})
              => /\ conn[c].outcome = "readErr"
                 /\ conn[c].read = << >>
                 /\ conn[c].fullHello = << >> /\ conn[c].rbuf = << >>
                 /\ conn[c].policy = "none"
                 /\ conn[c].dials = 0 /\ conn[c].backendIn = << >>

C17_Witness ==
    \E c \in Conns :
        /\ conn[c].pc = "done" /\ conn[c].kind = "none" /\ conn[c].outcome = "readErr"
        /\ conn[c].clientCloses = 1

C17_WitnessTLS ==
    \E c \in Conns :
        /\ conn[c].kind = "tls" /\ conn[c].read = <<TLSHandshake>>
        /\ conn[c].pc = "helloHdr"

\* the client has sent what no parser accepts: a record header declaring no
\* body, a whole record that is no ClientHello or stops short, a request
\* head with a line that is none
Malformed(c) ==
    \/ /\ conn[c].kind = "tls"
       /\ conn[c].fullHello \in {HelloZeroLen, HelloWrongType, HelloShortHandshake,
                                 HelloShortExtensions}
    \/ /\ conn[c].kind = "plain"
       /\ \/ IsPrefix(<<TokGarbage>>, conn[c].read)
          \/ IsPrefix(<<TokRequestLine, TokGarbage>>, conn[c].read)

FailedBeforeRelay(c) == conn[c].outcome \in {"readErr", "parseErr", "noSNI", "dialErr"}

\* C18: malformed input ends in a parse error; a task that failed before the
\* relay has written nothing to a backend, made no dial unless the dial is
\* what failed, left no backend connection, and once ended has closed the
\* client and decremented the counter once
C18_FailureLeavesNothing ==
    \A c \in Conns :
        /\ Malformed(c) => conn[c].outcome = "parseErr"
        /\ FailedBeforeRelay(c)
              => /\ conn[c].pc \in {"teardown", "done"}
                 /\ conn[c].backendIn = << >>
                 /\ ~conn[c].backendUp
                 /\ conn[c].dials = IF conn[c].outcome = "dialErr" THEN 1 ELSE 0
                 /\ conn[c].pc = "done"
                       => /\ conn[c].clientCloses = 1
                          /\ conn[c].incs = 1 /\ conn[c].decs = 1
                          /\ activeConnections = 0

C18_Witness ==
    \E c \in Conns :
        /\ conn[c].pc = "done" /\ conn[c].outcome = "parseErr"
        /\ conn[c].fullHello = HelloShortExtensions

C18_WitnessReadError ==
    \E c \in Conns :
        /\ conn[c].pc = "done" /\ conn[c].outcome = "readErr"
        /\ conn[c].kind = "tls" /\ conn[c].read = Take(HelloAB, 20)

\* whether a length of the server_name extension body points past its end
SNIPast(list) ==
    /\ Len(list) >= 2
    /\ \/ Uint16(list[1], list[2]) + 2 > Len(list)
       \/ /\ Len(list) >= 5
          /\ Uint16(list[4], list[5]) + 5 > Len(list)

\* whether the length of an extension, up to and including the first
\* server_name extension, points past the end of the extensions block
RECURSIVE ExtPast(_, _)
ExtPast(ext, at) ==
    /\ at + 4 <= Len(ext)
    /\ LET el == Uint16(ext[at + 3], ext[at + 4])
       IN  \/ at + 4 + el > Len(ext)
           \/ IF Uint16(ext[at + 1], ext[at + 2]) = 0
              THEN SNIPast(SubSeq(ext, at + 5, at + 4 + el))
              ELSE ExtPast(ext, at + 4 + el)

\* whether, in the handshake of the buffered bytes buf, the session id, the
\* cipher suites, the compression methods, the extensions block, an
\* extension, the server name list or the name is longer than what is left
\* of buf
LengthPast(buf) ==
    LET d == Drop(buf, 5)
        n == Len(d)
        sidEnd == 39 + d[39]
        csEnd == sidEnd + 2 + Uint16(d[sidEnd + 1], d[sidEnd + 2])
        compEnd == csEnd + 1 + d[csEnd + 1]
        extEnd == compEnd + 2 + Uint16(d[compEnd + 1], d[compEnd + 2])
    IN  \/ n < 39
        \/ sidEnd + 2 > n
        \/ csEnd + 1 > n
        \/ compEnd + 2 > n
        \/ extEnd > n
        \/ ExtPast(SubSeq(d, compEnd + 3, extEnd), 0)

\* C19: readClientHello never slices outside what it has buffered; it ends
\* with a host name and no error or with an error and no host name; a record
\* longer than the stream, and a length inside the handshake that points past
\* the buffered bytes, end in an error
C19_ParserStaysInBounds ==
    probe.asked =>
        /\ probe.result.err # "panic"
        /\ probe.result.err \in {"", "readErr", "parseErr", "noSNI"}
        /\ probe.result.err # "" => probe.result.host = << >>
        /\ (Len(probe.stream) >= 5 /\ Len(probe.stream) < 5 + RecordLen(probe.stream))
              => probe.result.err = "readErr"
        /\ (Len(probe.result.buffered) >= 5 /\ LengthPast(probe.result.buffered))
              => probe.result.err # ""

C19_Witness ==
    /\ probe.asked
    /\ probe.stream = [HelloAB EXCEPT ![Len(HelloAB) - Len(NameAB)] = 40]
    /\ probe.result.err = "noSNI"
    /\ LengthPast(probe.result.buffered)

C19_WitnessSessionId ==
    /\ probe.asked
    /\ probe.stream = [HelloAB EXCEPT ![44] = 255]
    /\ probe.result.err = "parseErr"
    /\ LengthPast(probe.result.buffered)

\* the domain check is made at most once, and once made neither its result,
\* the routing key nor the backend changes
CheckedOnce(c) ==
    /\ conn[c].checks <= 1
    /\ conn[c].checks = 1 <=> conn[c].policy # "none"
    /\ conn[c].pc \in {"dial", "write", "relay"}
          => conn[c].checks = 1 /\ conn[c].policy = "allowed"
    /\ conn[c].backendUp => conn[c].dialed = conn[c].forwardAddr /\ conn[c].dials = 1

\* a step of a relay passes the client's next bytes to the backend as they
\* are; a step of a connection whose domain check is made leaves the check alone
RelaysBlindly(c) ==
    /\ conn[c].policy # "none"
          => /\ conn'[c].policy = conn[c].policy
             /\ conn'[c].host = conn[c].host
             /\ conn'[c].checks = conn[c].checks
             /\ conn'[c].forwardAddr = conn[c].forwardAddr
    /\ (conn[c].pc = "relay" /\ conn'[c].clientIn # conn[c].clientIn)
          => /\ conn'[c].pc = "relay"
             /\ \E n \in 1..Len(conn[c].clientIn) :
                   /\ conn'[c].clientIn = Drop(conn[c].clientIn, n)
                   /\ conn'[c].backendIn = conn[c].backendIn \o Take(conn[c].clientIn, n)
             /\ conn'[c].dialed = conn[c].dialed

\* C20: the domain list is consulted once per connection, before the dial;
\* whatever the client sends once the relay runs goes to the backend chosen
\* then, unread by the policy
C20_PolicyCheckedOnce ==
    /\ [](\A c \in Conns : CheckedOnce(c))
    /\ [][\A c \in Conns : RelaysBlindly(c)]_vars

\* a second request head, for a host the list denies, has reached the backend
C20_Witness ==
    \E c \in Conns :
        /\ allowedDomains = <<NameAB>>
        /\ conn[c].kind = "plain" /\ conn[c].host = NameAB /\ conn[c].policy = "allowed"
        /\ ~isAllowedDomain(StripPort(HostValues[3]), allowedDomains)
        /\ conn[c].backendIn = <<TokRequestLine, TokHostBase + 1, TokBlank,
                                 TokRequestLine, TokHostBase + 3, TokBlank>>

====
